---- MODULE Spec2Model ----
(***************************************************************************)
(* A state-machine model of mbt_gym's TradingEnvironment                   *)
(* (src/mbt_gym/gym/TradingEnvironment.py): construction, reset, step and  *)
(* seed, with the four action regimes.                                     *)
(*                                                                         *)
(* Numbers.  Prices, cash and inventory are integers.  Time is counted in  *)
(* integer quanta; terminal_time is a multiple of n_steps, so that         *)
(* step_size = terminal_time / n_steps is a whole number of quanta.        *)
(* Market-order flags are counted in halves (0, 1, 2 stand for 0.0, 0.5    *)
(* and 1.0).  An optional constructor argument is <<>> (None) or <<v>>.    *)
(*                                                                         *)
(* The stochastic processes and numpy's generator are not part of the      *)
(* source file; they are modelled from their contract (section 4.2 of the  *)
(* specification).  A generator that was never seeded draws from the       *)
(* operating system's entropy: every outcome is possible.  A seeded        *)
(* generator is a deterministic function of its state.                     *)
(***************************************************************************)
EXTENDS Integers, Sequences, FiniteSets, TLC

VARIABLES
    cfg,     \* the constructor's arguments
    env,     \* the attributes __init__ computes and keeps, and those the setters change
    state,   \* self.state: one row (a sequence of columns) per trajectory
    rng,     \* self.rng
    proc,    \* the configured processes: current_state and generator of each
    ret,     \* what the last call returned (or raised), with step's local values
    epi,     \* calls since the last reset: steps returned, steps that returned done
    obs      \* a caller's record of two episodes (kept only when obs.on)

vars == <<cfg, env, state, rng, proc, ret, epi, obs>>

----------------------------------------------------------------------------
(* Bounds of the exploration *)

MaxTraj == 2        \* largest batch (num_trajectories)
NSteps == 2         \* n_steps
MaxOver == 1        \* step calls explored after the terminal time is reached
MaxInv == 1         \* max_inventory
PriceSpan == 1      \* the midprice stays within InitialPrice +- PriceSpan
RngMod == 16        \* number of states of a seeded generator
MaxWidth == 2       \* widest process state in the layout exploration
MaxSeed == 1        \* largest value passed to seed()
StepQuanta == 4     \* quanta per step where start times are rounded

(* Program constants *)

CASH_INDEX == 0
INVENTORY_INDEX == 1
TIME_INDEX == 2
ASSET_PRICE_INDEX == 3
BID_INDEX == 0
ASK_INDEX == 1

MARKET_MAKING_ACTION_TYPES == {"touch", "limit", "limit_and_market"}
EXECUTION_ACTION_TYPES == {"speed"}
ACTION_TYPES == MARKET_MAKING_ACTION_TYPES \cup EXECUTION_ACTION_TYPES

----------------------------------------------------------------------------
(* Helpers *)

None == <<>>
Some(v) == <<v>>

\* Python truthiness of an optional number: None and 0 are false
Truthy(o) == o # None /\ o[1] # 0

\* `o or d` for an optional number o
OrElse(o, d) == IF Truthy(o) THEN o[1] ELSE d

Min2(a, b) == IF a < b THEN a ELSE b
Max2(a, b) == IF a > b THEN a ELSE b

\* a 0-based column of a row
Col(row, k) == row[k + 1]

\* the row with its 0-based column k set to v
WithCol(row, k, v) == [row EXCEPT ![k + 1] = v]

RECURSIVE SumSeq(_)
SumSeq(s) == IF s = <<>> THEN 0 ELSE Head(s) + SumSeq(Tail(s))

Zeros(w) == [k \in 1..w |-> 0]

----------------------------------------------------------------------------
(* numpy's generator, np.random.default_rng.  None is a generator seeded    *)
(* from the operating system (seed=None); Some(s) is a seeded generator in  *)
(* state s, whose draws are a function of s.                                *)

Lcg(s) == (5 * s + 3) % RngMod

RECURSIVE Nth(_, _)
Nth(s, k) == IF k = 0 THEN s ELSE Nth(Lcg(s), k - 1)

default_rng(seed) == IF seed = None THEN None ELSE Some(seed[1] % RngMod)

\* the generator after k draws
Advance(r, k) == IF r = None THEN None ELSE Some(Nth(r[1], k))

\* the k-th next raw value of a seeded generator
Raw(r, k) == Nth(r[1], k)

\* a uniform draw compared with one half
Bit(v) == IF 2 * v >= RngMod THEN 1 ELSE 0

\* rng.integers(low, high, size=n): n integers in [low, high)
IntegersDraws(r, low, high, n) ==
    IF r = None
    THEN [1..n -> low..(high - 1)]
    ELSE {[i \in 1..n |-> low + (Raw(r, i) % (high - low))]}

\* n rows of two 0/1 draws (bid, ask)
BitRows(r, n) ==
    IF r = None
    THEN [1..n -> [1..2 -> 0..1]]
    ELSE {[i \in 1..n |-> [j \in 1..2 |-> Bit(Raw(r, 2 * (i - 1) + j))]]}

\* n midprice increments in -1..1
MoveDraws(r, n) ==
    IF r = None
    THEN [1..n -> -1..1]
    ELSE {[i \in 1..n |-> (Raw(r, i) % 3) - 1]}

----------------------------------------------------------------------------
(* The stochastic processes (contract of section 4.2) *)

\* the fixed order of _get_stochastic_processes
ProcessNames ==
    <<"midprice_model", "arrival_model", "fill_probability_model", "price_impact_model">>

InitialPrice == 3   \* initial_price of the midprice model
ImpactCoef == 1     \* temporary impact per unit of trading speed
BrownianWidth == 1  \* state width of the default BrownianMotionMidpriceModel

\* the midprice model's bounds min_value[0, 0] and max_value[0, 0]
MidMin == InitialPrice - PriceSpan
MidMax == InitialPrice + PriceSpan

\* self.midprice_model = midprice_model or BrownianMotionMidpriceModel(...)
Configured(c, p) == p = "midprice_model" \/ c.procs[p] # None

\* process.initial_vector_state.shape[1]
Width(c, p) ==
    IF c.procs[p] = None THEN BrownianWidth ELSE c.procs[p][1]

\* one row of process.initial_vector_state
InitialVector(c, p) ==
    IF p = "midprice_model"
    THEN [k \in 1..Width(c, p) |-> IF k = 1 THEN InitialPrice ELSE 0]
    ELSE Zeros(Width(c, p))

\* process.min_value and process.max_value: one bound per state column
MinValue(c, p) ==
    IF p = "midprice_model"
    THEN [k \in 1..Width(c, p) |-> IF k = 1 THEN MidMin ELSE 0]
    ELSE [k \in 1..Width(c, p) |-> -2]

MaxValue(c, p) ==
    IF p = "midprice_model"
    THEN [k \in 1..Width(c, p) |-> IF k = 1 THEN MidMax ELSE 0]
    ELSE [k \in 1..Width(c, p) |-> 2]

\* price_impact_model.get_impact(action), for one trajectory
get_impact(speed) == ImpactCoef * speed

\* fill_probability_model.get_fills(depths), for one trajectory: a posted
\* depth of 0 is filled with probability 1, a deeper one on a uniform draw
get_fills(depths, unif) ==
    [j \in 1..2 |-> IF depths[j] = 0 THEN 1 ELSE unif[j]]

\* process.update(arrivals, fills, action): the new row of current_state.
\* The midprice moves by its own draw (kept within its bounds); the arrival
\* model remembers the number of arrivals; the fill model is stateless; the
\* price-impact model remembers the sign of the last action.
ProcUpdate(c, p, row, arr, fll, act, mv) ==
    IF p = "midprice_model"
    THEN [k \in 1..Width(c, p) |->
            IF k = 1 THEN Max2(MidMin, Min2(MidMax, row[1] + mv)) ELSE row[k]]
    ELSE IF p = "arrival_model"
    THEN [k \in 1..Width(c, p) |-> IF arr = None THEN 0 ELSE arr[1] + arr[2]]
    ELSE IF p = "fill_probability_model"
    THEN row
    ELSE [k \in 1..Width(c, p) |->
            IF act[1] > 0 THEN 1 ELSE IF act[1] < 0 THEN -1 ELSE 0]

----------------------------------------------------------------------------
(* Construction: registry, column layout, resolved attributes *)

\* _get_stochastic_processes: the configured processes, in the fixed order
stochastic_processes(c) == SelectSeq(ProcessNames, LAMBDA p : Configured(c, p))

\* variant of IndexLoop that advances the count by one column per process
RECURSIVE IndexLoop_count_by_one(_, _, _, _)
IndexLoop_count_by_one(c, names, count, acc) ==
    IF names = <<>>
    THEN acc
    ELSE LET p == Head(names)
             dimension == Width(c, p)
         IN IndexLoop_count_by_one(c, Tail(names), count + 1,
                                   acc @@ (p :> <<count, count + dimension>>))

RECURSIVE IndexLoop(_, _, _, _)
IndexLoop(c, names, count, acc) ==
    IF names = <<>>
    THEN acc
    ELSE LET p == Head(names)
             dimension == Width(c, p)
         IN IndexLoop(c, Tail(names), count + dimension,
                      acc @@ (p :> <<count, count + dimension>>))

\* _get_stochastic_process_indices: name -> (lower, upper), half-open
stochastic_process_indices(c) ==
    IndexLoop(c, stochastic_processes(c), 3, <<>>)

\* self.max_stock_price = max_stock_price or self.midprice_model.max_value[0, 0]
max_stock_price(c) == OrElse(c.max_stock_price, MidMax)

\* _get_max_cash
get_max_cash(c) == c.n_steps * max_stock_price(c)

\* self.max_cash = max_cash or self._get_max_cash()
max_cash(c) == OrElse(c.max_cash, get_max_cash(c))

\* _get_max_depth: the fill-probability model's max_depth (None: it has none)
get_max_depth(c) ==
    IF c.procs.fill_probability_model # None THEN c.fill_max_depth ELSE None

\* self.max_depth = max_depth or self._get_max_depth()
max_depth(c) == IF Truthy(c.max_depth) THEN c.max_depth ELSE get_max_depth(c)

\* _get_max_speed: the price-impact model's max_speed
get_max_speed(c) ==
    IF c.procs.price_impact_model # None THEN c.impact_max_speed ELSE None

\* self.max_speed = max_speed or self._get_max_speed()
max_speed(c) == IF Truthy(c.max_speed) THEN c.max_speed ELSE get_max_speed(c)

\* variant of the check that asks the limit regimes for an arrival model only
check_required_arrival_only(at, procs) ==
    /\ at \in ACTION_TYPES
    /\ IF at \in MARKET_MAKING_ACTION_TYPES THEN procs.arrival_model # None
       ELSE procs.price_impact_model # None

\* _check_required_stochastic_processes: TRUE when no assertion fails
check_required_stochastic_processes(at, procs) ==
    /\ at \in ACTION_TYPES
    /\ IF at = "touch" THEN procs.arrival_model # None
       ELSE IF at \in {"limit", "limit_and_market"}
       THEN procs.arrival_model # None /\ procs.fill_probability_model # None
       ELSE procs.price_impact_model # None

\* _get_action_space: the upper bound of the action space, one entry per
\* action column (None: not a number; flags are counted in halves)
action_space_high(c) ==
    IF c.action_type = "touch" THEN <<Some(1), Some(1)>>
    ELSE IF c.action_type = "limit" THEN <<max_depth(c), max_depth(c)>>
    ELSE IF c.action_type = "limit_and_market"
    THEN <<max_depth(c), max_depth(c), Some(2), Some(2)>>
    ELSE <<max_speed(c)>>

\* _get_action_space: what it raises.  limit asserts a max_depth; speed
\* negates max_speed; limit_and_market builds np.array([max_depth, max_depth,
\* 1, 1], dtype=np.float32), where a None becomes nan
action_space_error(c) ==
    IF c.action_type = "limit" /\ max_depth(c) = None THEN "AssertionError: max_depth"
    ELSE IF c.action_type = "speed" /\ max_speed(c) = None THEN "TypeError: max_speed"
    ELSE "none"

\* the values self.start_time can resolve to: the number given, or any
\* value the callable given may return
StartValues(c) ==
    IF c.start_callable = None THEN {c.random_start} ELSE c.start_callable[1]

\* the configuration with the start-time policy resolved to v for one call
Resolved(c, v) == [c EXCEPT !.random_start = v]

\* assert (time >= 0.0) and (time < self.terminal_time)
start_in_range(c, t) == t >= 0 /\ t < c.terminal_time

\* self._step_size = self.terminal_time / self.n_steps
InitialStepSize(c) == c.terminal_time \div c.n_steps

\* the step_size and num_trajectories a process holds when __init__ receives
\* it: the default midprice model is built with the engine's values, a process
\* of the caller with the values the caller built it with
BuiltStepSize(c, p) ==
    IF c.procs[p] = None \/ c.built_step_size = None
    THEN InitialStepSize(c) ELSE c.built_step_size[1]

BuiltNumTrajectories(c, p) ==
    IF c.procs[p] = None \/ c.built_num_trajectories = None
    THEN c.num_trajectories ELSE c.built_num_trajectories[1]

\* __init__: the exception it raises, in the order of its statements; building
\* the initial state appends each process's initial_vector_state, which has one
\* row per trajectory of the process, to the engine's rows
construct_error(c, v) ==
    IF ~check_required_stochastic_processes(c.action_type, c.procs)
    THEN "AssertionError: required process"
    ELSE IF ~start_in_range(c, v) THEN "AssertionError: start time"
    ELSE IF \E k \in 1..Len(stochastic_processes(c)) :
                BuiltNumTrajectories(c, stochastic_processes(c)[k]) # c.num_trajectories
    THEN "ValueError: rows"
    ELSE action_space_error(c)

\* np.append over the registry: the vectors f[p] of the processes, in order
RECURSIVE AppendAll(_, _)
AppendAll(names, f) ==
    IF names = <<>> THEN <<>> ELSE f[Head(names)] \o AppendAll(Tail(names), f)

\* _get_observation_space: the lower and the upper bound vector
observation_low(c) ==
    <<-max_cash(c), -c.max_inventory, 0>>
        \o AppendAll(stochastic_processes(c),
                     [p \in {"midprice_model", "arrival_model",
                             "fill_probability_model", "price_impact_model"}
                        |-> IF Configured(c, p) THEN MinValue(c, p) ELSE <<>>])

observation_high(c) ==
    <<max_cash(c), c.max_inventory, c.terminal_time>>
        \o AppendAll(stochastic_processes(c),
                     [p \in {"midprice_model", "arrival_model",
                             "fill_probability_model", "price_impact_model"}
                        |-> IF Configured(c, p) THEN MaxValue(c, p) ELSE <<>>])

\* variant of the rounding that truncates
RoundDown(t, s) == t \div s

\* np.round(x): round to nearest, ties to even, for x = t / s
RoundHalfEven(t, s) ==
    LET q == t \div s
        r == t % s
    IN IF 2 * r < s THEN q
       ELSE IF 2 * r > s THEN q + 1
       ELSE IF q % 2 = 0 THEN q ELSE q + 1

\* _quantise_time_to_step (the asserted range is the caller's precondition)
quantise_time_to_step(t, s) == RoundHalfEven(t, s) * s

\* _get_start_time, for a fixed random_start
get_start_time(c, s) == quantise_time_to_step(c.random_start, s)

\* _get_initial_inventories: the arrays the call can return
get_initial_inventories(c, r, n) ==
    IF c.initial_inventory.kind = "tuple"
    THEN IntegersDraws(r, c.initial_inventory.low, c.initial_inventory.high, n)
    ELSE {[i \in 1..n |-> c.initial_inventory.low]}

\* the generator after _get_initial_inventories
RngAfterInventories(c, r, n) ==
    IF c.initial_inventory.kind = "tuple" THEN Advance(r, n) ELSE r

\* initial_state: the prefix (cash, inventory, time) and then each
\* configured process's initial_vector_state, in registry order
\* variant of initial_state that staggers the start time over the trajectories
initial_state_time_per_row(c, names, n, s, inventories, vectors) ==
    [i \in 1..n |->
        <<c.initial_cash, inventories[i], get_start_time(c, s) + (i - 1) * s>>
            \o AppendAll(names, vectors)]

initial_state(c, names, n, s, inventories, vectors) ==
    [i \in 1..n |->
        <<c.initial_cash, inventories[i], get_start_time(c, s)>>
            \o AppendAll(names, vectors)]

----------------------------------------------------------------------------
(* The step *)

\* is_at_max_inventory, is_at_min_inventory, for one row of the state
is_at_max_inventory(c, row) == Col(row, INVENTORY_INDEX) >= c.max_inventory
is_at_min_inventory(c, row) == Col(row, INVENTORY_INDEX) <= -c.max_inventory

\* self.midprice: column 0 of the midprice model's current_state
midprice(pr, i) == pr["midprice_model"].cur[i][1]

\* variant of remove_max_inventory_fills with the two sides exchanged
remove_fills_sides_swapped(c, row, fills) ==
    <<(1 - (IF Col(row, INVENTORY_INDEX) <= -c.max_inventory THEN 1 ELSE 0)) * fills[1],
      (1 - (IF Col(row, INVENTORY_INDEX) >= c.max_inventory THEN 1 ELSE 0)) * fills[2]>>

\* _remove_max_inventory_fills, for one trajectory: column BID_INDEX is
\* multiplied by 1 - is_at_max_inventory, column ASK_INDEX by 1 - is_at_min_inventory
remove_max_inventory_fills(c, row, fills) ==
    <<(1 - (IF is_at_max_inventory(c, row) THEN 1 ELSE 0)) * fills[BID_INDEX + 1],
      (1 - (IF is_at_min_inventory(c, row) THEN 1 ELSE 0)) * fills[ASK_INDEX + 1]>>

\* _limit_depths and _post_at_touch: action[:, 0:2]
limit_depths(act) == <<act[1], act[2]>>
post_at_touch(act) == <<act[1], act[2]>>

\* _market_order_buy: action[:, 2];  _market_order_sell: action[:, 3]
market_order_buy(act) == act[3]
market_order_sell(act) == act[4]

\* flag > 0.5, the flag counted in halves
AboveHalf(flag) == flag > 1

\* _get_arrivals_and_fills: the arrivals drawn and the fills after suppression
get_arrivals_and_fills(c, st, action, arr, unif) ==
    [arrivals |-> arr,
     fills |-> [i \in DOMAIN st |->
        remove_max_inventory_fills(c, st[i],
            IF c.action_type \in {"limit", "limit_and_market"}
            THEN get_fills(limit_depths(action[i]), unif[i])
            ELSE post_at_touch(action[i]))]]

\* self.multiplier: one row (-1, 1) per trajectory
multiplier == <<-1, 1>>

\* variant of clip that forgets the upper bound
clip_lower_only(x, lo, hi) == Max2(x, lo)

\* _clip: np.clip(x, min, max)
clip(x, lo, hi) == Min2(Max2(x, lo), hi)

\* _clip_inventory_and_cash, for one row
clip_inventory_and_cash(c, e, row) ==
    WithCol(WithCol(row, INVENTORY_INDEX,
                    clip(Col(row, INVENTORY_INDEX), -c.max_inventory, c.max_inventory)),
            CASH_INDEX, clip(Col(row, CASH_INDEX), -e.max_cash, e.max_cash))

\* numpy's broadcast of two shapes, the shorter one padded with leading 1s
RECURSIVE PadShape(_, _)
PadShape(sh, n) == IF Len(sh) >= n THEN sh ELSE PadShape(<<1>> \o sh, n)

BroadcastShape(a, b) ==
    LET n == Max2(Len(a), Len(b))
        pa == PadShape(a, n)
        pb == PadShape(b, n)
    IN [k \in 1..n |-> Max2(pa[k], pb[k])]

\* two shapes broadcast when, aligned, each pair of sizes is equal or has a 1
Broadcastable(a, b) ==
    LET n == Max2(Len(a), Len(b))
    IN \A k \in 1..n :
        \/ PadShape(a, n)[k] = PadShape(b, n)[k]
        \/ PadShape(a, n)[k] = 1
        \/ PadShape(b, n)[k] = 1

\* `out += x` stores into out: x must broadcast to out's own shape
InPlaceOk(out, x) == BroadcastShape(out, x) = out

\* variant of SidesCash that adds the offset on both sides
SidesCash_offset_unsigned(arr, fll, mid, offset) ==
    SumSeq([j \in 1..2 |-> multiplier[j] * arr[j] * fll[j] * (mid + offset[j])])

\* the cash change of the touch and limit branches for one trajectory:
\* np.sum(multiplier * arrivals * fills * (midprice + offset * multiplier), axis=1)
SidesCash(arr, fll, mid, offset) ==
    SumSeq([j \in 1..2 |->
        multiplier[j] * arr[j] * fll[j] * (mid + offset[j] * multiplier[j])])

\* np.sum(arrivals * fills * -multiplier, axis=1)
SidesInventory(arr, fll) ==
    SumSeq([j \in 1..2 |-> arr[j] * fll[j] * (-multiplier[j])])

\* variant of agent_branch whose speed branch charges the execution price
\* for a full step whatever the action
agent_branch_volume_ignored(c, row, mid, arr, fll, act, s) ==
    IF c.action_type \in EXECUTION_ACTION_TYPES
    THEN WithCol(WithCol(row, CASH_INDEX,
                         Col(row, CASH_INDEX) - s * (mid + get_impact(act[1]))),
                 INVENTORY_INDEX, Col(row, INVENTORY_INDEX) + act[1] * s)
    ELSE row

\* The regime branch of _update_agent_state for one row, before clipping.
\* limit_and_market is taken by the first `if`, so the later
\* `elif ... in ["limit", "limit_and_market"]` runs for limit only.
agent_branch(c, row, mid, arr, fll, act, s) ==
    IF c.action_type = "touch"
    THEN WithCol(WithCol(row, CASH_INDEX, Col(row, CASH_INDEX)
                    + SidesCash(arr, fll, mid, <<c.half_spread[1], c.half_spread[1]>>)),
                 INVENTORY_INDEX, Col(row, INVENTORY_INDEX) + SidesInventory(arr, fll))
    ELSE IF c.action_type = "limit"
    THEN WithCol(WithCol(row, INVENTORY_INDEX,
                         Col(row, INVENTORY_INDEX) + SidesInventory(arr, fll)),
                 CASH_INDEX, Col(row, CASH_INDEX)
                    + SidesCash(arr, fll, mid, limit_depths(act)))
    ELSE IF c.action_type \in EXECUTION_ACTION_TYPES
    THEN LET price_impact == get_impact(act[1])
             execution_price == mid + price_impact
             volume == act[1] * s
         IN WithCol(WithCol(row, CASH_INDEX,
                            Col(row, CASH_INDEX) - volume * execution_price),
                    INVENTORY_INDEX, Col(row, INVENTORY_INDEX) + volume)
    ELSE row

\* What _update_agent_state raises, if anything.  With half_spread None the
\* arithmetic on it is a TypeError.  In limit_and_market the flags have shape
\* (n,) and best_bid, best_ask shape (n, 1): their product has the broadcast
\* shape, which `self.state[:, CASH_INDEX] += ...` cannot store into shape (n,).
\* self.multiplier keeps the rows it was built with (c.num_trajectories): in
\* touch and limit its product with the (n, 2) arrivals must broadcast.
agent_error(c, n) ==
    IF c.action_type \in {"touch", "limit"}
            /\ ~Broadcastable(<<c.num_trajectories, 2>>, <<n, 2>>)
    THEN "ValueError"
    ELSE IF c.action_type \in {"touch", "limit_and_market"} /\ c.half_spread = None
    THEN "TypeError"
    ELSE IF c.action_type \in {"touch", "limit"}
            /\ ~InPlaceOk(<<n>>,
                    <<BroadcastShape(<<c.num_trajectories, 2>>, <<n, 2>>)[1]>>)
    THEN "ValueError"
    ELSE IF c.action_type = "limit_and_market"
            /\ ~InPlaceOk(<<n>>, BroadcastShape(<<n>>, <<n, 1>>))
    THEN "ValueError"
    ELSE "none"

\* variant of update_agent_state that advances the time by two steps
update_agent_state_double_time(c, e, row, mid, arr, fll, act) ==
    LET clipped == clip_inventory_and_cash(c, e,
                        agent_branch(c, row, mid, arr, fll, act, e.step_size))
    IN WithCol(clipped, TIME_INDEX, Col(clipped, TIME_INDEX) + 2 * e.step_size)

\* _update_agent_state for one row: the branch, the clip, the time increment
update_agent_state(c, e, row, mid, arr, fll, act) ==
    LET clipped == clip_inventory_and_cash(c, e,
                        agent_branch(c, row, mid, arr, fll, act, e.step_size))
    IN WithCol(clipped, TIME_INDEX, Col(clipped, TIME_INDEX) + e.step_size)

\* variant of SetSlice that takes the half-open range as 1-based columns
SetSlice_one_based(row, lower, upper, vals) ==
    [k \in 1..Len(row) |-> IF lower <= k /\ k < upper THEN vals[k - lower + 1] ELSE row[k]]

\* self.state[:, lower:upper] = process.current_state, for one row
SetSlice(row, lower, upper, vals) ==
    [k \in 1..Len(row) |-> IF lower < k /\ k <= upper THEN vals[k - lower] ELSE row[k]]

\* _update_market_state: the loop over the registry, for one row
RECURSIVE MarketLoop(_, _, _, _)
MarketLoop(e, names, row, cur) ==
    IF names = <<>>
    THEN row
    ELSE LET p == Head(names)
             lower_index == e.stochastic_process_indices[p][1]
             upper_index == e.stochastic_process_indices[p][2]
         IN MarketLoop(e, Tail(names), SetSlice(row, lower_index, upper_index, cur[p]), cur)

\* variant of Done without the half-step tolerance, strict
Done_strict(c, e, st) == Col(st[1], TIME_INDEX) > c.terminal_time

\* done = self.state[0, TIME_INDEX] >= self.terminal_time - self.step_size / 2
Done(c, e, st) == 2 * Col(st[1], TIME_INDEX) >= 2 * c.terminal_time - e.step_size

----------------------------------------------------------------------------
(* Calls *)

MarketMaking(c) == c.action_type \in MARKET_MAKING_ACTION_TYPES
DepthRegime(c) == c.action_type \in {"limit", "limit_and_market"}

\* the rows an agent may send, per regime (action_space)
ActionRows(c) ==
    IF c.action_type = "touch" THEN [1..2 -> 0..1]
    ELSE IF c.action_type = "limit" THEN [1..2 -> 0..1]
    ELSE IF c.action_type = "limit_and_market"
    THEN {<<0, 0, 0, 0>>, <<0, 1, 1, 0>>, <<1, 0, 0, 1>>, <<0, 0, 1, 1>>,
          <<0, 0, 2, 0>>, <<1, 1, 0, 2>>, <<0, 1, 2, 2>>}
    ELSE {<<a>> : a \in -1..1}

\* position of process p in the registry, from 0 (enumerate)
RegistryPosition(c, p) ==
    CHOOSE k \in 0..3 : k < Len(stochastic_processes(c)) /\ stochastic_processes(c)[k + 1] = p

NoReturn ==
    [op |-> "init", err |-> "none", done |-> FALSE, action |-> None,
     arrivals |-> None, fills |-> None, pre |-> None, state |-> None,
     start |-> None, dones |-> None, calls |-> <<>>, infos |-> None,
     reached |-> {}]

\* the processes as the caller built them: at their initial state, unseeded
FreshProcs(c, n) ==
    [p \in {stochastic_processes(c)[k] : k \in 1..Len(stochastic_processes(c))} |->
        [cur |-> [i \in 1..n |-> InitialVector(c, p)], rng |-> None,
         step_size |-> BuiltStepSize(c, p),
         num_trajectories |-> BuiltNumTrajectories(c, p)]]

\* the attributes __init__ leaves on the object
\* self.empty_infos: a list of one empty dict per trajectory for a batch, a
\* single empty dict for one trajectory
empty_infos(c) ==
    IF c.num_trajectories > 1
    THEN [kind |-> "list", len |-> c.num_trajectories]
    ELSE [kind |-> "dict", len |-> 0]

\* the shape of self.multiplier = np.append(-ones, ones, axis=1)
multiplier_shape(c) == <<c.num_trajectories, 2>>

Attributes(c) ==
    [step_size |-> InitialStepSize(c),
     num_trajectories |-> c.num_trajectories,
     stochastic_processes |-> stochastic_processes(c),
     stochastic_process_indices |-> stochastic_process_indices(c),
     max_stock_price |-> max_stock_price(c),
     max_cash |-> max_cash(c),
     observation_low |-> observation_low(c),
     observation_high |-> observation_high(c),
     max_depth |-> max_depth(c),
     max_speed |-> max_speed(c),
     half_spread |-> c.half_spread,
     action_space_high |-> action_space_high(c),
     reward_step_size |-> c.reward_step_size,
     empty_infos |-> empty_infos(c),
     multiplier_shape |-> multiplier_shape(c)]

\* seed(seed): the engine's generator, and process i seeded with seed + i + 1
seed(c, pr, sd) ==
    [rng |-> default_rng(Some(sd)),
     proc |-> [p \in DOMAIN pr |->
                [pr[p] EXCEPT !.rng = default_rng(Some(sd + RegistryPosition(c, p) + 1))]]]

\* __init__ up to self.state = self.initial_state: the generator and the
\* processes after `self.rng = default_rng(seed); if seed: self.seed(seed)`
Constructed(c) ==
    IF Truthy(c.seed)
    THEN seed(c, FreshProcs(c, c.num_trajectories), c.seed[1])
    ELSE [rng |-> default_rng(c.seed), proc |-> FreshProcs(c, c.num_trajectories)]

----------------------------------------------------------------------------
(* A caller that compares two episodes.  Phase 0 lasts until the first     *)
(* reset; phase 1 records the episode that reset begins (the state reset   *)
(* returns, then each action with the state step returns); phase 2 is the  *)
(* episode begun by the next reset, compared entry by entry with the       *)
(* record while its actions are the recorded ones; phase 3 is anything     *)
(* else.  seedA and seedB are the values of the seed() calls made directly *)
(* before the two resets (None: no such call).                             *)

ObsInit(on) ==
    [on |-> on, phase |-> 0, pending |-> None, seedA |-> None, seedB |-> None,
     first |-> <<>>, complete |-> FALSE, pos |-> 0, same |-> TRUE]

ObsVoid == [ObsInit(TRUE) EXCEPT !.phase = 3]

ObsReset(o, st) ==
    IF ~o.on THEN o
    ELSE IF o.phase = 0
    THEN [o EXCEPT !.phase = 1, !.seedA = o.pending, !.pending = None,
                   !.first = <<[action |-> None, state |-> st]>>]
    ELSE IF o.phase = 1 /\ o.complete /\ o.pending = o.seedA
    THEN [o EXCEPT !.phase = 2, !.seedB = o.pending, !.pending = None,
                   !.pos = 1, !.same = (st = o.first[1].state)]
    ELSE ObsVoid

ObsStep(o, r) ==
    IF ~o.on THEN o
    ELSE IF o.phase = 0 THEN [o EXCEPT !.pending = None]
    ELSE IF o.phase = 1
    THEN IF o.complete \/ o.pending # None \/ r.err # "none"
         THEN ObsVoid
         ELSE [o EXCEPT !.first = Append(@, [action |-> r.action, state |-> r.state]),
                        !.complete = r.done]
    ELSE IF o.phase = 2
    THEN IF o.pos >= Len(o.first) \/ o.pending # None \/ r.err # "none"
         THEN ObsVoid
         ELSE IF r.action # o.first[o.pos + 1].action
         THEN ObsVoid
         ELSE [o EXCEPT !.pos = @ + 1,
                        !.same = @ /\ (r.state = o.first[o.pos + 1].state)]
    ELSE o

ObsSeed(o, sd) ==
    IF ~o.on \/ o.phase = 3 THEN o ELSE [o EXCEPT !.pending = Some(sd)]

\* a read of initial_state between seed(s) and reset: the reset no longer
\* directly follows the seed
ObsRead(o) ==
    IF ~o.on \/ o.phase = 3 THEN o
    ELSE IF o.pending # None THEN ObsVoid
    ELSE o

----------------------------------------------------------------------------

\* the state after TradingEnvironment(**cfg).  When __init__ raises there is
\* no object: no attribute, no state, and no call can follow.
InitWith(configs, observing) ==
    /\ obs = ObsInit(observing)
    /\ cfg \in configs
    /\ \E v \in StartValues(cfg) :
         IF construct_error(cfg, v) = "none"
         THEN /\ env = Attributes(cfg)
              /\ proc = Constructed(cfg).proc
              /\ \E inventories \in
                      get_initial_inventories(cfg, Constructed(cfg).rng,
                                              cfg.num_trajectories) :
                   state = initial_state(Resolved(cfg, v), stochastic_processes(cfg),
                                         cfg.num_trajectories, InitialStepSize(cfg),
                                         inventories,
                                         [p \in DOMAIN proc |-> proc[p].cur[1]])
              /\ rng = RngAfterInventories(cfg, Constructed(cfg).rng,
                                           cfg.num_trajectories)
              /\ ret = [NoReturn EXCEPT !.start = Some(v)]
         ELSE /\ env = None
              /\ proc = <<>>
              /\ state = None
              /\ rng = None
              /\ ret = [NoReturn EXCEPT !.err = construct_error(cfg, v),
                                        !.start = Some(v)]
    /\ epi = [steps |-> 0, dones |-> 0]

\* the constructor returned an environment
Built == ~(ret.op = "init" /\ ret.err # "none")

\* variant of reset that leaves the processes where the last episode left them
reset_processes_kept(c, e, pr, inventories) ==
    LET st == initial_state(c, e.stochastic_processes, e.num_trajectories,
                            e.step_size, inventories,
                            [p \in DOMAIN pr |-> InitialVector(c, p)])
    IN [proc |-> pr, state |-> st,
        ret |-> [NoReturn EXCEPT !.op = "reset", !.state = st]]

\* reset(): every process reset, the state rebuilt from initial_state
reset(c, e, pr, inventories) ==
    LET resetProcs == [p \in DOMAIN pr |->
            [pr[p] EXCEPT !.cur = [i \in 1..e.num_trajectories |-> InitialVector(c, p)]]]
        st == initial_state(c, e.stochastic_processes, e.num_trajectories,
                            e.step_size, inventories,
                            [p \in DOMAIN pr |-> resetProcs[p].cur[1]])
    IN [proc |-> resetProcs, state |-> st,
        ret |-> [NoReturn EXCEPT !.op = "reset", !.state = st]]

\* reset() when the start time fails its assertion: the processes have been
\* reset, self.state is not assigned, nothing is returned
reset_raises(c, e, pr) ==
    [proc |-> [p \in DOMAIN pr |->
                [pr[p] EXCEPT !.cur = [i \in 1..e.num_trajectories |-> InitialVector(c, p)]]],
     ret |-> [NoReturn EXCEPT !.op = "reset", !.err = "AssertionError: start time"]]

Reset ==
    /\ Built
    /\ \E v \in StartValues(cfg) :
         IF start_in_range(cfg, v)
         THEN /\ \E inventories \in
                      get_initial_inventories(cfg, rng, env.num_trajectories) :
                 \E r \in {reset(Resolved(cfg, v), env, proc, inventories)} :
                    /\ proc' = r.proc
                    /\ state' = r.state
                    /\ ret' = [r.ret EXCEPT !.start = Some(v)]
                    /\ obs' = ObsReset(obs, r.state)
              /\ rng' = RngAfterInventories(cfg, rng, env.num_trajectories)
              /\ epi' = [steps |-> 0, dones |-> 0]
         ELSE /\ \E r \in {reset_raises(cfg, env, proc)} :
                    /\ proc' = r.proc
                    /\ ret' = [r.ret EXCEPT !.start = Some(v)]
              /\ obs' = IF obs.on THEN ObsVoid ELSE obs
              /\ UNCHANGED <<state, rng, epi>>
    /\ UNCHANGED <<cfg, env>>

\* the generators after a step's draws: get_arrivals, get_fills, and (when
\* the market update is reached) the midprice update
DrawnProcs(c, pr, n, updated) ==
    [p \in DOMAIN pr |->
        IF p = "arrival_model" /\ MarketMaking(c)
        THEN [pr[p] EXCEPT !.rng = Advance(pr[p].rng, 2 * n)]
        ELSE IF p = "fill_probability_model" /\ DepthRegime(c)
        THEN [pr[p] EXCEPT !.rng = Advance(pr[p].rng, 2 * n)]
        ELSE IF p = "midprice_model" /\ updated
        THEN [pr[p] EXCEPT !.rng = Advance(pr[p].rng, n)]
        ELSE pr[p]]

\* dones = np.full((self.num_trajectories,), done, dtype=bool)
dones_batch(e, done) == [i \in 1..e.num_trajectories |-> done]

\* reward_function.calculate(current_state, action, next_state, done), per
\* trajectory: the change of the marked-to-market wealth over the step
calculate_reward(current_state, action, next_state, done) ==
    [i \in 1..Len(next_state) |->
        (Col(next_state[i], CASH_INDEX)
            + Col(next_state[i], INVENTORY_INDEX) * Col(next_state[i], ASSET_PRICE_INDEX))
        - (Col(current_state[i], CASH_INDEX)
            + Col(current_state[i], INVENTORY_INDEX) * Col(current_state[i], ASSET_PRICE_INDEX))]

\* variant of step_calls without the copy: current_state is self.state itself
step_calls_no_copy(c, current_state, action, next_state, done) ==
    <<[callee |-> "reward_function.calculate", current_state |-> next_state,
       action |-> action, next_state |-> next_state, done |-> done]>>
    \o (IF c.info_calculator # None
        THEN <<[callee |-> "info_calculator.calculate", current_state |-> next_state,
                action |-> action,
                rewards |-> calculate_reward(next_state, action, next_state, done)]>>
        ELSE <<>>)

\* the calls step makes after _update_state, in order, with their arguments:
\* reward_function.calculate, then info_calculator.calculate when an info
\* calculator is configured
step_calls(c, current_state, action, next_state, done) ==
    <<[callee |-> "reward_function.calculate", current_state |-> current_state,
       action |-> action, next_state |-> next_state, done |-> done]>>
    \o (IF c.info_calculator # None
        THEN <<[callee |-> "info_calculator.calculate", current_state |-> current_state,
                action |-> action,
                rewards |-> calculate_reward(current_state, action, next_state, done)]>>
        ELSE <<>>)

\* the infos step returns: the info calculator's, or self.empty_infos
step_infos(c, e) ==
    IF c.info_calculator # None
    THEN [kind |-> "calculated", len |-> e.num_trajectories]
    ELSE e.empty_infos

\* variant in which the agent update reads the processes after the market update
processes_after_market_update(pr, updated) == updated

\* _update_state calls _update_agent_state before _update_market_state: the
\* agent update reads the processes (self.midprice) as they are before this
\* step's process.update calls
processes_at_agent_update(pr, updated) == pr

\* step(action) with the draws arr (arrivals), unif (fill uniforms) and mv
\* (midprice moves): the object's new fields and what the call returns.
\* An exception leaves self.state as it was; the draws are spent.
step(c, e, st, pr, ep, action, arr, unif, mv) ==
    LET n == e.num_trajectories
        current_state == st
        af == IF MarketMaking(c)
              THEN get_arrivals_and_fills(c, st, action, arr, unif)
              ELSE [arrivals |-> None, fills |-> None]
        err == agent_error(c, n)
        rowArr(i) == IF af.arrivals = None THEN None ELSE af.arrivals[i]
        rowFll(i) == IF af.fills = None THEN None ELSE af.fills[i]
        drawn == DrawnProcs(c, pr, n, TRUE)
        updated == [p \in DOMAIN pr |->
                      [drawn[p] EXCEPT !.cur = [i \in 1..n |->
                          ProcUpdate(c, p, pr[p].cur[i], rowArr(i), rowFll(i),
                                     action[i], mv[i])]]]
        agent == [i \in 1..n |->
                    update_agent_state(c, e, st[i],
                                       midprice(processes_at_agent_update(pr, updated), i),
                                       rowArr(i),
                                       rowFll(i), action[i])]
        next_state == [i \in 1..n |->
                        MarketLoop(e, e.stochastic_processes, agent[i],
                                   [p \in DOMAIN pr |-> updated[p].cur[i]])]
        done == Done(c, e, next_state)
    IN IF err # "none"
       THEN [proc |-> DrawnProcs(c, pr, n, FALSE),
             state |-> st,
             epi |-> ep,
             ret |-> [op |-> "step", err |-> err, done |-> FALSE, action |-> action,
                      arrivals |-> af.arrivals, fills |-> af.fills,
                      pre |-> current_state, state |-> None, start |-> None,
                      dones |-> None, calls |-> <<>>, infos |-> None,
                      reached |-> {}]]
       ELSE [proc |-> updated,
             state |-> next_state,
             epi |-> [steps |-> ep.steps + 1,
                      dones |-> ep.dones + (IF done THEN 1 ELSE 0)],
             ret |-> [op |-> "step", err |-> "none", done |-> done, action |-> action,
                      arrivals |-> af.arrivals, fills |-> af.fills,
                      pre |-> current_state, state |-> next_state, start |-> None,
                      dones |-> dones_batch(e, done),
                      calls |-> step_calls(c, current_state, action, next_state, done),
                      infos |-> step_infos(c, e), reached |-> {}]]

\* the caller keeps stepping at most MaxOver calls after the terminal time,
\* and steps a state that has the current number of trajectories
Step ==
    /\ Built
    /\ Len(state) = env.num_trajectories
    /\ Col(state[1], TIME_INDEX) < cfg.terminal_time + MaxOver * env.step_size
    /\ \E action \in [1..env.num_trajectories -> ActionRows(cfg)] :
       \E arr \in (IF MarketMaking(cfg)
                   THEN BitRows(proc["arrival_model"].rng, env.num_trajectories)
                   ELSE {None}) :
       \E unif \in (IF DepthRegime(cfg)
                    THEN BitRows(proc["fill_probability_model"].rng, env.num_trajectories)
                    ELSE {None}) :
       \E mv \in (IF agent_error(cfg, env.num_trajectories) = "none"
                  THEN MoveDraws(proc["midprice_model"].rng, env.num_trajectories)
                  ELSE {None}) :
       \E r \in {step(cfg, env, state, proc, epi, action, arr, unif, mv)} :
          /\ proc' = r.proc
          /\ state' = r.state
          /\ epi' = r.epi
          /\ ret' = r.ret
          /\ obs' = ObsStep(obs, r.ret)
    /\ UNCHANGED <<cfg, env, rng>>

\* the values a caller passes to seed()
SeedValues == 0..MaxSeed

\* env.seed(sd)
SeedCall ==
    /\ Built
    /\ \E sd \in SeedValues :
       \E r \in {seed(cfg, proc, sd)} :
          /\ rng' = r.rng
          /\ proc' = r.proc
          /\ obs' = ObsSeed(obs, sd)
    /\ ret' = [NoReturn EXCEPT !.op = "seed"]
    /\ UNCHANGED <<cfg, env, state, epi>>

\* variant of the step_size setter that leaves the reward function alone
set_step_size_processes_only(e, pr, v) ==
    [env |-> [e EXCEPT !.step_size = v],
     proc |-> [p \in DOMAIN pr |-> [pr[p] EXCEPT !.step_size = v]],
     reached |-> DOMAIN pr]

\* the step_size setter: the engine, each process that differs, and the
\* reward function when it has a step_size attribute; reached: the components
\* the setter compares with or assigns the value
set_step_size(e, pr, v) ==
    [env |-> [e EXCEPT !.step_size = v,
                       !.reward_step_size = IF @ = None THEN None ELSE Some(v)],
     proc |-> [p \in DOMAIN pr |->
                IF pr[p].step_size # v THEN [pr[p] EXCEPT !.step_size = v] ELSE pr[p]],
     reached |-> DOMAIN pr
                 \cup (IF e.reward_step_size # None THEN {"reward_function"} ELSE {})]

\* the num_trajectories setter: the engine and each process that differs; the
\* reward function is not looked at
set_num_trajectories(e, pr, v) ==
    [env |-> [e EXCEPT !.num_trajectories = v],
     proc |-> [p \in DOMAIN pr |->
                IF pr[p].num_trajectories # v
                THEN [pr[p] EXCEPT !.num_trajectories = v] ELSE pr[p]],
     reached |-> DOMAIN pr]

\* the values a caller assigns
StepSizes == 1..NSteps
BatchSizes == 1..MaxTraj

\* env.step_size = v
SetStepSize ==
    /\ Built
    /\ \E v \in StepSizes :
       \E r \in {set_step_size(env, proc, v)} :
          /\ env' = r.env
          /\ proc' = r.proc
          /\ ret' = [NoReturn EXCEPT !.op = "set_step_size", !.reached = r.reached]
    /\ UNCHANGED <<cfg, state, rng, epi, obs>>

\* env.num_trajectories = v
SetNumTrajectories ==
    /\ Built
    /\ \E v \in BatchSizes :
       \E r \in {set_num_trajectories(env, proc, v)} :
          /\ env' = r.env
          /\ proc' = r.proc
          /\ ret' = [NoReturn EXCEPT !.op = "set_num_trajectories",
                                     !.reached = r.reached]
    /\ UNCHANGED <<cfg, state, rng, epi, obs>>

Next == Reset \/ Step

\* a caller that also assigns step_size and num_trajectories
NextSet == Reset \/ Step \/ SetStepSize \/ SetNumTrajectories

\* a caller that also reseeds
NextSeed == Reset \/ Step \/ SeedCall

\* a read of the property env.initial_state: the start time is resolved (a
\* callable is called) and checked, then the inventories are drawn from
\* self.rng; the value is returned, self.state and the processes are untouched
ReadInitialState ==
    /\ Built
    /\ \E v \in StartValues(cfg) :
         IF start_in_range(cfg, v)
         THEN /\ \E inventories \in
                      get_initial_inventories(cfg, rng, env.num_trajectories) :
                 ret' = [NoReturn EXCEPT
                            !.op = "initial_state",
                            !.start = Some(v),
                            !.state = initial_state(Resolved(cfg, v),
                                          env.stochastic_processes,
                                          env.num_trajectories, env.step_size,
                                          inventories,
                                          [p \in DOMAIN proc |-> InitialVector(cfg, p)])]
              /\ rng' = RngAfterInventories(cfg, rng, env.num_trajectories)
         ELSE /\ ret' = [NoReturn EXCEPT !.op = "initial_state",
                                         !.err = "AssertionError: start time",
                                         !.start = Some(v)]
              /\ UNCHANGED rng
    /\ obs' = ObsRead(obs)
    /\ UNCHANGED <<cfg, env, state, proc, epi>>

\* a caller that also reads env.initial_state
NextRead == Reset \/ Step \/ ReadInitialState

\* a caller that seeds, resets, steps and reads env.initial_state
NextSeedRead == Reset \/ Step \/ SeedCall \/ ReadInitialState

----------------------------------------------------------------------------
(* Configurations explored *)

IntInventory(v) == [kind |-> "int", low |-> v, high |-> v]
TupleInventory(lo, hi) == [kind |-> "tuple", low |-> lo, high |-> hi]

\* the processes each regime requires, with the state widths of the stock
\* models (Poisson arrivals and exponential fills have no state)
RegimeProcs(at) ==
    [midprice_model |-> None,
     arrival_model |-> IF at \in MARKET_MAKING_ACTION_TYPES THEN Some(0) ELSE None,
     fill_probability_model |-> IF at \in {"limit", "limit_and_market"} THEN Some(0) ELSE None,
     price_impact_model |-> IF at = "speed" THEN Some(1) ELSE None]

Config(at, n, inv, cash, start, sd) ==
    [action_type |-> at, terminal_time |-> NSteps, n_steps |-> NSteps,
     num_trajectories |-> n, initial_cash |-> cash, initial_inventory |-> inv,
     max_inventory |-> MaxInv, max_cash |-> None, max_stock_price |-> None,
     max_depth |-> None, max_speed |-> None, half_spread |-> Some(1),
     random_start |-> start, start_callable |-> None, seed |-> sd,
     procs |-> RegimeProcs(at), fill_max_depth |-> Some(1),
     impact_max_speed |-> Some(1), reward_step_size |-> None,
     info_calculator |-> None,
     built_step_size |-> None, built_num_trajectories |-> None]

\* single trajectories with unseeded processes: every draw is possible
\* the defaults; an initial inventory beyond the bound; an initial cash one
\* below max_cash; a late start
SingleConfigs ==
    {Config(at, 1, IntInventory(0), 0, 0, None) : at \in ACTION_TYPES}
    \cup {Config(at, 1, IntInventory(MaxInv + 1), 0, 0, None) :
            at \in {"limit", "speed"}}
    \cup {Config(at, 1, IntInventory(0), NSteps * MidMax - 1, 0, None) :
            at \in {"touch", "speed"}}
    \cup {Config(at, 1, IntInventory(0), 0, 1, None) :
            at \in {"touch", "limit_and_market", "speed"}}

\* batches, seeded, with drawn initial inventories
BatchConfigs ==
    {Config(at, n, TupleInventory(-MaxInv, MaxInv + 1), 0, 0, Some(1)) :
        at \in ACTION_TYPES, n \in 2..MaxTraj}

Configs == SingleConfigs \cup BatchConfigs

Init == InitWith(Configs, FALSE)

Spec == Init /\ [][Next]_vars

\* every composition of processes a regime accepts, each process with a
\* state of 0..MaxWidth columns (the midprice model: the default one, or one
\* of MaxWidth columns)
LayoutProcs ==
    [midprice_model : {None, Some(MaxWidth)},
     arrival_model : {None} \cup {Some(w) : w \in 0..MaxWidth},
     fill_probability_model : {None} \cup {Some(w) : w \in 0..MaxWidth},
     price_impact_model : {None} \cup {Some(w) : w \in 0..MaxWidth}]

\* a regime for each composition: speed when there is a price-impact model,
\* else limit when there is a fill-probability model, else touch
LayoutRegime(procs) ==
    IF procs.price_impact_model # None THEN "speed"
    ELSE IF procs.fill_probability_model # None THEN "limit"
    ELSE "touch"

LayoutConfigs ==
    {[Config(LayoutRegime(procs), 1, IntInventory(0), 0, 0, Some(1)) EXCEPT !.procs = procs] :
        procs \in {x \in LayoutProcs :
                      check_required_stochastic_processes(LayoutRegime(x), x)}}

InitLayout == InitWith(LayoutConfigs, FALSE)

SpecLayout == InitLayout /\ [][Next]_vars

\* constructor arguments, varied one group at a time around a seeded
\* single-trajectory environment
Base(at) == Config(at, 1, IntInventory(0), 0, 0, Some(1))

\* every regime name (and one that is none) with every presence of the
\* three optional processes
PresenceProcs ==
    [midprice_model : {None},
     arrival_model : {None, Some(0)},
     fill_probability_model : {None, Some(0)},
     price_impact_model : {None, Some(1)}]

RequiredConfigs ==
    {[Base(at) EXCEPT !.procs = procs] :
        at \in ACTION_TYPES \cup {"market"}, procs \in PresenceProcs}

\* the limit regimes with max_depth omitted, given as 0 or given, and a
\* fill-probability model with or without a max_depth of its own
DepthConfigs ==
    {[Base(at) EXCEPT !.max_depth = given, !.fill_max_depth = own] :
        at \in {"limit", "limit_and_market"},
        given \in {None, Some(0), Some(2)},
        own \in {None, Some(1)}}

\* the optional numbers omitted, given as 0 or given
DefaultConfigs ==
    {[Base(at) EXCEPT !.half_spread = hs] :
        at \in ACTION_TYPES, hs \in {None, Some(1)}}
    \cup {[Base(at) EXCEPT !.max_cash = mc, !.max_stock_price = ms] :
            at \in {"touch", "speed"},
            mc \in {None, Some(0), Some(5)}, ms \in {None, Some(0), Some(5)}}
    \cup {[Base("speed") EXCEPT !.max_speed = sp] : sp \in {None, Some(0), Some(2)}}

\* a batch with steps of StepQuanta quanta, and start-time policies: every
\* fixed value from below 0 to above terminal_time, and callables that may
\* return several values, in range or not
Coarse ==
    [Config("touch", MaxTraj, IntInventory(0), 0, 0, Some(1))
        EXCEPT !.terminal_time = StepQuanta * NSteps]

StartConfigs ==
    {[Coarse EXCEPT !.random_start = v] : v \in (-1)..(Coarse.terminal_time + 1)}
    \cup {[Coarse EXCEPT !.start_callable = Some(vs)] :
            vs \in {{1, Coarse.terminal_time - 1}, {StepQuanta - 1, Coarse.terminal_time}}}

\* the seed omitted, zero or positive
SeedArgConfigs ==
    {[Base(at) EXCEPT !.seed = sd] :
        at \in {"touch", "speed"}, sd \in {None} \cup {Some(k) : k \in 0..(MaxSeed + 1)}}

BuildConfigs ==
    RequiredConfigs \cup DepthConfigs \cup DefaultConfigs \cup StartConfigs
        \cup SeedArgConfigs

InitBuild == InitWith(BuildConfigs, FALSE)

SpecBuild == InitBuild /\ [][Next]_vars

\* seeded environments: one whose reward function and price-impact model were
\* built with another step_size than the engine's, one built in step with the
\* engine and a reward function without step_size, and one whose price-impact
\* model was built with another num_trajectories
SetConfigs ==
    {[Config("speed", MaxTraj, IntInventory(0), 0, 0, Some(1))
        EXCEPT !.reward_step_size = Some(NSteps), !.built_step_size = Some(NSteps)],
     Config("speed", 1, IntInventory(0), 0, 0, Some(1)),
     [Config("speed", MaxTraj, IntInventory(0), 0, 0, Some(1))
        EXCEPT !.built_num_trajectories = Some(1)]}

InitSet == InitWith(SetConfigs, FALSE)

\* environments with and without an info calculator: a seeded batch per
\* market-making regime, a single trajectory in the execution regime
InfoConfigs ==
    {[c EXCEPT !.info_calculator = ic] :
        c \in {Config(at, MaxTraj, TupleInventory(-MaxInv, MaxInv + 1), 0, 0, Some(1)) :
                  at \in {"touch", "limit", "limit_and_market"}}
              \cup {Config("speed", 1, IntInventory(0), 0, 0, None)},
        ic \in {None, Some(1)}}

InitInfo == InitWith(InfoConfigs, FALSE)

SpecInfo == InitInfo /\ [][Next]_vars

SpecSet == InitSet /\ [][NextSet]_vars

\* a caller that assigns num_trajectories between episodes
NextBatch == Reset \/ Step \/ SetNumTrajectories

\* seeded environments of each regime that returns from step, built with one
\* trajectory and with a batch, and a touch batch without a half spread
BatchSetConfigs ==
    {Config(at, n, IntInventory(0), 0, 0, Some(1)) :
        at \in {"touch", "limit", "speed"}, n \in 1..MaxTraj}
    \cup {[Config("touch", MaxTraj, IntInventory(0), 0, 0, Some(1))
            EXCEPT !.half_spread = None]}

InitBatch == InitWith(BatchSetConfigs, FALSE)

SpecBatch == InitBatch /\ [][NextBatch]_vars

\* seeded environments with drawn initial inventories, and an unseeded one
SeedConfigs ==
    {Config("touch", n, TupleInventory(-MaxInv, MaxInv + 1), 0, 0, Some(1)) :
        n \in 1..MaxTraj}
    \cup {Config("speed", 1, TupleInventory(-MaxInv, MaxInv + 1), 0, 0, None)}

InitSeed == InitWith(SeedConfigs, TRUE)

SpecSeed == InitSeed /\ [][NextSeed]_vars

\* a seeded batch with drawn inventories, and a start-time callable that
\* returns values in and out of range
ReadConfigs ==
    {Config("touch", MaxTraj, TupleInventory(-MaxInv, MaxInv + 1), 0, 0, Some(1)),
     [Config("speed", 1, TupleInventory(-MaxInv, MaxInv + 1), 0, 0, Some(1))
        EXCEPT !.start_callable = Some({1, NSteps})]}

InitRead == InitWith(ReadConfigs, FALSE)

SpecRead == InitRead /\ [][NextRead]_vars

\* one trajectory with drawn inventories, observed over two seeded episodes
SeedReadConfigs ==
    {Config("speed", 1, TupleInventory(-MaxInv, MaxInv + 1), 0, 0, Some(1))}

InitSeedRead == InitWith(SeedReadConfigs, TRUE)

SpecSeedRead == InitSeedRead /\ [][NextSeedRead]_vars

----------------------------------------------------------------------------
(* Properties *)

Trajectories == 1..env.num_trajectories

\* the last call was a step that returned
StepReturned == ret.op = "step" /\ ret.err = "none"

\* the last call was a step, returned or raised after its fills were computed
StepCalled == ret.op = "step"

Cash(row) == Col(row, CASH_INDEX)
Inventory(row) == Col(row, INVENTORY_INDEX)
Time(row) == Col(row, TIME_INDEX)

\* C1: after any step that returns, in every regime and for every
\* trajectory, inventory lies in [-max_inventory, max_inventory] and cash in
\* [-max_cash, max_cash], in the object's state and in the returned copy.
C1_ClippingInvariant ==
    StepReturned =>
        \A i \in Trajectories :
            /\ Inventory(state[i]) >= -cfg.max_inventory
            /\ Inventory(state[i]) <= cfg.max_inventory
            /\ Cash(state[i]) >= -env.max_cash
            /\ Cash(state[i]) <= env.max_cash
            /\ ret.state[i] = state[i]

\* a speed step bought at the inventory ceiling: the sum was clipped
C1_Witness ==
    /\ StepReturned
    /\ cfg.action_type = "speed"
    /\ \E i \in Trajectories :
        /\ ret.action[i][1] = 1
        /\ Inventory(ret.pre[i]) = cfg.max_inventory
        /\ Inventory(state[i]) = cfg.max_inventory

\* the start time in steps: round(random_start / step_size)
StartSteps == get_start_time(cfg, env.step_size) \div env.step_size

\* C2 as stated: counting the step calls that return after a reset, done is
\* false on the first n_steps - 1 of them and true on the n_steps-th.
C2_Original_ExactlyNSteps ==
    (StepReturned /\ epi.steps <= cfg.n_steps) =>
        (ret.done <=> epi.steps = cfg.n_steps)

\* C2 amended: with k the start time in steps, done is false on the first
\* n_steps - k - 1 step calls that return after a reset and true on call
\* n_steps - k; this is n_steps calls exactly when the start time is 0.
C2_EpisodeLengthFromStart ==
    (StepReturned /\ epi.steps <= cfg.n_steps - StartSteps) =>
        (ret.done <=> epi.steps = cfg.n_steps - StartSteps)

\* an episode started late has ended before its n_steps-th step
C2_Witness ==
    /\ StepReturned
    /\ StartSteps > 0
    /\ ret.done
    /\ epi.steps = cfg.n_steps - StartSteps
    /\ epi.steps < cfg.n_steps

\* C3 as stated: within one episode at most one step call returns done=true.
C3_Original_DoneOnce == epi.dones <= 1

\* C3 amended: a step call returns done=true exactly when the elapsed time
\* it leaves is at least terminal_time - step_size / 2: false on every call
\* before the time first reaches it, true on that call and on every later
\* call of the episode.
C3_DoneFromFirstReach ==
    StepReturned =>
        /\ ret.done <=> 2 * Time(ret.state[1]) >= 2 * cfg.terminal_time - env.step_size
        /\ ret.done <=> epi.steps >= cfg.n_steps - StartSteps
        /\ epi.dones = Max2(0, epi.steps - (cfg.n_steps - StartSteps) + 1)

\* a step after the final one returned done=true again
C3_Witness == StepReturned /\ ret.done /\ epi.dones = 2

\* C4: in the arrival-driven regimes the bid fill a step uses is zero for a
\* trajectory that starts the step at or above +max_inventory, and the ask
\* fill is zero at or below -max_inventory, whatever the action and the
\* draws; where the step completes, the inventory of a trajectory at the
\* ceiling does not rise and that of one at the floor does not fall.
C4_FillSuppression ==
    (StepCalled /\ MarketMaking(cfg)) =>
        \A i \in Trajectories :
            /\ Inventory(ret.pre[i]) >= cfg.max_inventory =>
                /\ ret.fills[i][BID_INDEX + 1] = 0
                /\ StepReturned => Inventory(ret.state[i]) <= Inventory(ret.pre[i])
            /\ Inventory(ret.pre[i]) <= -cfg.max_inventory =>
                /\ ret.fills[i][ASK_INDEX + 1] = 0
                /\ StepReturned => Inventory(ret.state[i]) >= Inventory(ret.pre[i])

\* at the ceiling, a posted bid met an arrival and was not filled
C4_Witness ==
    /\ StepReturned
    /\ cfg.action_type = "touch"
    /\ \E i \in Trajectories :
        /\ Inventory(ret.pre[i]) >= cfg.max_inventory
        /\ ret.action[i][BID_INDEX + 1] = 1
        /\ ret.arrivals[i][BID_INDEX + 1] = 1
        /\ ret.fills[i][BID_INDEX + 1] = 0
        /\ Inventory(state[i]) = Inventory(ret.pre[i])

\* the row a limit-regime step leaves, for the same arrivals, fills,
\* midprice and depths
LimitRow(i) ==
    update_agent_state([cfg EXCEPT !.action_type = "limit"], env, ret.pre[i],
                       Col(ret.pre[i], ASSET_PRICE_INDEX), ret.arrivals[i],
                       ret.fills[i], ret.action[i])

FlagsLow(act) == ~AboveHalf(market_order_buy(act)) /\ ~AboveHalf(market_order_sell(act))

\* C6 as stated: a limit_and_market step whose market-order flags are both at
\* or below 0.5 changes cash and inventory as a limit step does for the same
\* arrivals, fills, midprice and depths.
C6_Original_LimitFillsApplied ==
    (StepCalled /\ cfg.action_type = "limit_and_market") =>
        \A i \in Trajectories :
            FlagsLow(ret.action[i]) =>
                /\ StepReturned
                /\ Cash(state[i]) = Cash(LimitRow(i))
                /\ Inventory(state[i]) = Inventory(LimitRow(i))

\* the touch step's executed quantity on each side
Executed(i, side) == ret.arrivals[i][side + 1] * ret.action[i][side + 1]

NotAtBound(row) ==
    /\ Inventory(row) < cfg.max_inventory
    /\ Inventory(row) > -cfg.max_inventory

\* the unclipped cash a touch step aims at, priced at the pre-step midprice
TouchCash(i) ==
    Cash(ret.pre[i])
        + Executed(i, ASK_INDEX) * (Col(ret.pre[i], ASSET_PRICE_INDEX) + cfg.half_spread[1])
        - Executed(i, BID_INDEX) * (Col(ret.pre[i], ASSET_PRICE_INDEX) - cfg.half_spread[1])

\* C7 as stated: in the touch regime a trajectory not at an inventory bound
\* changes inventory by bid executed - ask executed and cash by exactly
\* ask executed x (midprice + half_spread) - bid executed x (midprice - half_spread).
C7_Original_TouchExact ==
    (StepReturned /\ cfg.action_type = "touch") =>
        \A i \in Trajectories :
            NotAtBound(ret.pre[i]) =>
                /\ Inventory(state[i]) - Inventory(ret.pre[i])
                        = Executed(i, BID_INDEX) - Executed(i, ASK_INDEX)
                /\ Cash(state[i]) = TouchCash(i)

\* C7 amended: the inventory changes by bid executed - ask executed, each at
\* most 1, and cash becomes that sum priced at the pre-step midprice, clipped
\* to [-max_cash, max_cash].
C7_TouchClipped ==
    (StepReturned /\ cfg.action_type = "touch") =>
        \A i \in Trajectories :
            NotAtBound(ret.pre[i]) =>
                /\ Inventory(state[i]) - Inventory(ret.pre[i])
                        = Executed(i, BID_INDEX) - Executed(i, ASK_INDEX)
                /\ Executed(i, BID_INDEX) \in 0..1
                /\ Executed(i, ASK_INDEX) \in 0..1
                /\ Cash(state[i]) = clip(TouchCash(i), -env.max_cash, env.max_cash)

\* an ask was executed and the cash it brought was clipped at max_cash
C7_Witness ==
    /\ StepReturned
    /\ cfg.action_type = "touch"
    /\ \E i \in Trajectories :
        /\ NotAtBound(ret.pre[i])
        /\ Executed(i, ASK_INDEX) = 1
        /\ Inventory(state[i]) = Inventory(ret.pre[i]) - 1
        /\ TouchCash(i) > env.max_cash
        /\ Cash(state[i]) = env.max_cash

ZeroSpeed(i) == cfg.action_type = "speed" /\ ret.action[i][1] = 0

\* C8 as stated: a speed step with action 0 changes no column but the
\* elapsed time, which grows by one step size.
C8_Original_OnlyTimeChanges ==
    StepReturned =>
        \A i \in Trajectories :
            ZeroSpeed(i) =>
                \A k \in 0..(Len(state[i]) - 1) :
                    Col(state[i], k) =
                        IF k = TIME_INDEX THEN Col(ret.pre[i], k) + env.step_size
                        ELSE Col(ret.pre[i], k)

\* C8 amended: a speed step with action 0 leaves cash and inventory as they
\* were (clipped to their bounds if they lay outside) and advances the
\* elapsed time by one step size; the process columns are overwritten with
\* the processes' new states.
C8_ZeroSpeedAgentColumns ==
    StepReturned =>
        \A i \in Trajectories :
            ZeroSpeed(i) =>
                /\ Cash(state[i]) = clip(Cash(ret.pre[i]), -env.max_cash, env.max_cash)
                /\ Inventory(state[i])
                     = clip(Inventory(ret.pre[i]), -cfg.max_inventory, cfg.max_inventory)
                /\ Time(state[i]) = Time(ret.pre[i]) + env.step_size
                /\ Col(state[i], ASSET_PRICE_INDEX) = midprice(proc, i)

\* a zero-speed step after which the midprice column differs
C8_Witness ==
    /\ StepReturned
    /\ \E i \in Trajectories :
        /\ ZeroSpeed(i)
        /\ Cash(state[i]) = Cash(ret.pre[i])
        /\ Inventory(state[i]) = Inventory(ret.pre[i])
        /\ Col(state[i], ASSET_PRICE_INDEX) # Col(ret.pre[i], ASSET_PRICE_INDEX)

NoLimitFill(i) ==
    \A side \in {BID_INDEX, ASK_INDEX} : ret.arrivals[i][side + 1] * ret.fills[i][side + 1] = 0

Flag(f) == IF AboveHalf(f) THEN 1 ELSE 0

\* C9 as stated: in limit_and_market each trajectory's cash is debited by its
\* own best ask for a buy flag above 0.5 and credited by its own best bid for
\* a sell flag above 0.5, its inventory moved by +1 and -1, a flag at or
\* below 0.5 doing nothing (read on trajectories without a limit fill).
C9_Original_MarketOrders ==
    (StepCalled /\ cfg.action_type = "limit_and_market" /\ cfg.half_spread # None) =>
        \A i \in Trajectories :
            NoLimitFill(i) =>
                /\ StepReturned
                /\ Inventory(state[i])
                    = clip(Inventory(ret.pre[i]) + Flag(market_order_buy(ret.action[i]))
                                - Flag(market_order_sell(ret.action[i])),
                           -cfg.max_inventory, cfg.max_inventory)
                /\ Cash(state[i])
                    = clip(Cash(ret.pre[i])
                            - Flag(market_order_buy(ret.action[i]))
                                * (Col(ret.pre[i], ASSET_PRICE_INDEX) + cfg.half_spread[1])
                            + Flag(market_order_sell(ret.action[i]))
                                * (Col(ret.pre[i], ASSET_PRICE_INDEX) - cfg.half_spread[1]),
                           -env.max_cash, env.max_cash)

----------------------------------------------------------------------------
(* C5: two episodes of one environment *)

\* the second episode has been compared up to its last step
SecondEpisodeRun == obs.phase = 2 /\ obs.pos = Len(obs.first) /\ obs.pos > 1

\* C5 (as stated): in an environment built with a seed, the episode after
\* the second reset, run with the actions of the episode after the first
\* reset, passes through the same state vectors, initial inventories included.
C5_Original_ResetTwice ==
    (obs.phase = 2 /\ Truthy(cfg.seed) /\ obs.seedA = None /\ obs.seedB = None)
        => obs.same

\* C5 (amended): when seed(s) is called directly before each of two resets,
\* with the same s, the episode after the second reset, run with the actions
\* of the episode after the first, passes through the same state vectors,
\* initial inventories included.
C5_SeedThenResetReproduces ==
    (obs.phase = 2 /\ obs.seedA # None /\ obs.seedB = obs.seedA) => obs.same

C5_Witness ==
    /\ SecondEpisodeRun
    /\ obs.seedA # None /\ obs.seedB = obs.seedA
    /\ obs.same
    /\ ret.op = "step" /\ ret.done
    /\ cfg.initial_inventory.kind = "tuple"
    /\ \E i \in Trajectories : Inventory(state[i]) # Inventory(obs.first[1].state[i])

----------------------------------------------------------------------------
(* C10: the column layout *)

\* the registry as a set
Registered == {env.stochastic_processes[k] : k \in 1..Len(env.stochastic_processes)}

\* the state width of process p: the width of its current_state
StateWidth(p) == Len(proc[p].cur[1])

LayoutWidth ==
    3 + SumSeq([k \in 1..Len(env.stochastic_processes) |->
                    StateWidth(env.stochastic_processes[k])])

\* C10: the observation bounds, the state and every returned state are
\* 3 + (sum of the configured processes' state widths) wide; the cached
\* slices are half-open ranges, one per configured process, as wide as the
\* process's state, ascending in the order midprice, arrival,
\* fill-probability, price-impact, each starting where the previous one
\* ends, the first at column 3 and the last ending at the width.
C10_LayoutInvariant ==
    LET names == env.stochastic_processes
        idx == env.stochastic_process_indices
    IN /\ Len(env.observation_low) = LayoutWidth
       /\ Len(env.observation_high) = LayoutWidth
       /\ \A i \in Trajectories : Len(state[i]) = LayoutWidth
       /\ ret.state # None => \A i \in Trajectories : Len(ret.state[i]) = LayoutWidth
       /\ names = SelectSeq(ProcessNames, LAMBDA p : p \in DOMAIN proc)
       /\ DOMAIN idx = Registered
       /\ \A p \in Registered :
            /\ idx[p][1] <= idx[p][2]
            /\ idx[p][2] - idx[p][1] = StateWidth(p)
       /\ idx[names[1]][1] = 3
       /\ idx[names[Len(names)]][2] = LayoutWidth
       /\ \A k \in 1..(Len(names) - 1) : idx[names[k]][2] = idx[names[k + 1]][1]

C10_Witness ==
    /\ StepReturned
    /\ Len(env.stochastic_processes) = 4
    /\ \A p \in Registered : StateWidth(p) >= 1
    /\ StateWidth("arrival_model") # StateWidth("price_impact_model")
    /\ StateWidth("midprice_model") = MaxWidth
    /\ Len(ret.state[1]) = LayoutWidth
    /\ LayoutWidth > 3 + 4

----------------------------------------------------------------------------
(* C11: the processes a regime requires *)

\* the processes each regime requires
RequiredByRegime(at) ==
    IF at = "touch" THEN {"arrival_model"}
    ELSE IF at \in {"limit", "limit_and_market"}
    THEN {"arrival_model", "fill_probability_model"}
    ELSE {"price_impact_model"}

RequirementsMet ==
    /\ cfg.action_type \in {"touch", "limit", "limit_and_market", "speed"}
    /\ \A p \in RequiredByRegime(cfg.action_type) : cfg.procs[p] # None

\* C11: construction fails whenever the action type is not one of the four
\* regimes or a process the regime requires is absent, and never fails on
\* this check when all required processes are present.
C11_RequiredProcesses ==
    /\ ~RequirementsMet => (~Built /\ ret.err = "AssertionError: required process")
    /\ RequirementsMet => ret.err # "AssertionError: required process"

C11_Witness ==
    /\ ~Built
    /\ cfg.action_type = "limit_and_market"
    /\ cfg.procs.arrival_model # None
    /\ cfg.procs.fill_probability_model = None

----------------------------------------------------------------------------
(* C12: max_depth in the limit regimes *)

LimitFamily == cfg.action_type \in {"limit", "limit_and_market"}

\* C12 (as stated): in both limit regimes construction fails when max_depth
\* is not given and the fill-probability model provides none, and no
\* environment is produced whose action space has an undefined depth bound.
C12_Original_DepthResolved ==
    (LimitFamily /\ RequirementsMet) =>
        /\ (cfg.max_depth = None /\ cfg.fill_max_depth = None) => ~Built
        /\ Built => (env.action_space_high[1] # None /\ env.action_space_high[2] # None)

----------------------------------------------------------------------------
(* C13: defaults of the optional numbers *)

\* the value kept is the one the caller supplied
KeptAsGiven(given, kept) == given # None => kept = given[1]

\* C13 (as stated): each of max_cash, max_stock_price, max_depth, max_speed
\* and half_spread the caller omits has a default, so that no step of a
\* constructed environment computes with an undefined number, and a value
\* the caller supplies is used unchanged.
C13_Original_DefaultsDefined ==
    Built =>
        /\ cfg.action_type \in {"touch", "limit_and_market"} => env.half_spread # None
        /\ cfg.action_type = "speed" => env.max_speed # None
        /\ cfg.action_type \in {"limit", "limit_and_market"} => env.max_depth # None
        /\ ret.err # "TypeError"
        /\ KeptAsGiven(cfg.max_cash, env.max_cash)
        /\ KeptAsGiven(cfg.max_stock_price, env.max_stock_price)
        /\ KeptAsGiven(cfg.max_depth, env.max_depth[1])
        /\ KeptAsGiven(cfg.max_speed, env.max_speed[1])
        /\ KeptAsGiven(cfg.half_spread, env.half_spread[1])

----------------------------------------------------------------------------
(* C14: the start time *)

\* the last call built an initial state (the constructor, or reset)
BuildsInitialState == ret.op \in {"init", "reset"} /\ RequirementsMet

\* the state that call produced (None: none)
Produced == IF ret.op = "init" THEN state ELSE ret.state

\* C14: when the start-time policy resolves outside [0, terminal_time), the
\* call fails with the start-time assertion and produces no state; when it
\* resolves inside, the assertion does not fail and the elapsed time of the
\* state produced is a multiple of the step size at most half a step away
\* from the resolved value, the same for all trajectories.
C14_StartTime ==
    BuildsInitialState =>
        LET v == ret.start[1]
            inside == 0 <= v /\ v < cfg.terminal_time
            s == cfg.terminal_time \div cfg.n_steps
        IN /\ ~inside => (ret.err = "AssertionError: start time" /\ Produced = None)
           /\ inside => ret.err # "AssertionError: start time"
           /\ (inside /\ ret.err = "none") =>
                \A i \in 1..cfg.num_trajectories :
                    /\ Time(Produced[i]) % s = 0
                    /\ 2 * Time(Produced[i]) <= 2 * v + s
                    /\ 2 * Time(Produced[i]) >= 2 * v - s
                    /\ Time(Produced[i]) = Time(Produced[1])

C14_Witness ==
    /\ ret.op = "reset" /\ ret.err = "none"
    /\ cfg.num_trajectories > 1
    /\ cfg.start_callable # None
    /\ ret.start[1] % env.step_size # 0
    /\ Time(ret.state[1]) > ret.start[1]
    /\ Time(ret.state[2]) = Time(ret.state[1])

----------------------------------------------------------------------------
(* C15: the step_size and num_trajectories setters *)

\* every configured process, and the reward function when it has a
\* step_size, holds the engine's step_size
StepSizeSynced ==
    /\ \A p \in DOMAIN proc : proc[p].step_size = env.step_size
    /\ env.reward_step_size # None => env.reward_step_size[1] = env.step_size

\* every configured process holds the engine's num_trajectories
BatchSynced ==
    \A p \in DOMAIN proc : proc[p].num_trajectories = env.num_trajectories

\* the last call was an assignment to one of the two properties
Assigned == ret.op \in {"set_step_size", "set_num_trajectories"}

\* C15 as stated: after any assignments to step_size and num_trajectories
\* every configured process holds the engine's step_size and num_trajectories,
\* the reward function holds the engine's step_size when it exposes one, and
\* the assignment reached every configured process and the reward function.
C15_Original_AllReached ==
    Assigned =>
        /\ StepSizeSynced
        /\ BatchSynced
        /\ DOMAIN proc \subseteq ret.reached
        /\ "reward_function" \in ret.reached

\* C15 (amended): an assignment to step_size leaves the engine, every
\* configured process and the reward function (when it exposes step_size)
\* holding the assigned step_size, and reaches them; an assignment to
\* num_trajectories leaves the engine and every configured process holding the
\* assigned num_trajectories and reaches the processes but not the reward
\* function; neither assignment changes the other property in any component;
\* and once the components agree with the engine on a property, no call makes
\* them disagree.
C15_AssignedPropertyPropagated ==
    [][/\ ret'.op = "set_step_size" =>
            /\ StepSizeSynced'
            /\ ret'.reached = DOMAIN proc
                    \cup (IF env.reward_step_size # None
                          THEN {"reward_function"} ELSE {})
            /\ env'.num_trajectories = env.num_trajectories
            /\ \A p \in DOMAIN proc :
                    proc'[p].num_trajectories = proc[p].num_trajectories
       /\ ret'.op = "set_num_trajectories" =>
            /\ BatchSynced'
            /\ ret'.reached = DOMAIN proc
            /\ env'.step_size = env.step_size
            /\ env'.reward_step_size = env.reward_step_size
            /\ \A p \in DOMAIN proc : proc'[p].step_size = proc[p].step_size
       /\ (Built /\ StepSizeSynced) => StepSizeSynced'
       /\ (Built /\ BatchSynced) => BatchSynced'
      ]_vars

\* an environment whose reward function and price-impact model were built with
\* another step_size, after num_trajectories and then step_size were assigned:
\* everything holds the assigned values
C15_Witness ==
    /\ ret.op = "set_step_size"
    /\ cfg.built_step_size # None
    /\ cfg.built_step_size[1] # InitialStepSize(cfg)
    /\ env.num_trajectories # cfg.num_trajectories
    /\ env.reward_step_size = Some(env.step_size)
    /\ env.step_size # cfg.built_step_size[1]
    /\ StepSizeSynced
    /\ BatchSynced
    /\ "reward_function" \in ret.reached
    /\ Len(env.stochastic_processes) >= 2

----------------------------------------------------------------------------
(* C16: the seeds given at construction *)

\* the position of process p in the registry, from 0
PositionOf(p) ==
    CHOOSE k \in 0..(Len(env.stochastic_processes) - 1) : env.stochastic_processes[k + 1] = p

\* C16 (as stated): for every integer seed given at construction, 0
\* included, the engine's generator is seeded with the seed and the process
\* at position i with seed + i + 1.  (Read on the object the constructor
\* returns, whose generators have not drawn yet when the initial inventory
\* is a number.)
C16_Original_SeedsDerived ==
    (ret.op = "init" /\ Built /\ cfg.seed # None /\ cfg.initial_inventory.kind = "int") =>
        /\ rng = Some(cfg.seed[1] % RngMod)
        /\ \A p \in DOMAIN proc :
              proc[p].rng = Some((cfg.seed[1] + PositionOf(p) + 1) % RngMod)

----------------------------------------------------------------------------
(* C17: the range of the elapsed time *)

\* C17 (as stated): in every reachable state the elapsed time of every
\* trajectory lies in [0, terminal_time].
C17_Original_TimeInRange ==
    \A i \in 1..Len(state) :
        0 <= Time(state[i]) /\ Time(state[i]) <= cfg.terminal_time

\* the episode of row was already over: its time had reached
\* terminal_time - step_size / 2
Over(row) == 2 * Time(row) >= 2 * cfg.terminal_time - env.step_size

\* C17 (amended): the elapsed time is never negative, and it exceeds
\* terminal_time only in a state left by a step that was called when the
\* episode was already over, which added one more step size.
C17_TimeWithinEpisode ==
    \A i \in 1..Len(state) :
        /\ 0 <= Time(state[i])
        /\ Time(state[i]) > cfg.terminal_time =>
              /\ StepReturned
              /\ Over(ret.pre[i])
              /\ Time(state[i]) = Time(ret.pre[i]) + env.step_size

C17_Witness ==
    /\ StepReturned
    /\ Over(ret.pre[1])
    /\ Time(state[1]) = cfg.terminal_time + env.step_size
    /\ epi.dones = 2

----------------------------------------------------------------------------
(* C18: the price a step executes at *)

\* units bought (bid side) or sold (ask side) by trajectory i in the last step
Traded(i, side) == ret.arrivals[i][side + 1] * ret.fills[i][side + 1]

\* the cash flow of the last step for trajectory i when it is priced at mid
CashFlowAt(i, mid) ==
    IF cfg.action_type = "touch"
    THEN Traded(i, ASK_INDEX) * (mid + cfg.half_spread[1])
            - Traded(i, BID_INDEX) * (mid - cfg.half_spread[1])
    ELSE IF cfg.action_type = "limit"
    THEN Traded(i, ASK_INDEX) * (mid + ret.action[i][ASK_INDEX + 1])
            - Traded(i, BID_INDEX) * (mid - ret.action[i][BID_INDEX + 1])
    ELSE - (ret.action[i][1] * env.step_size) * (mid + get_impact(ret.action[i][1]))

\* C18: in every step that returns, the cash is the pre-step cash plus the
\* step's cash flow priced at the midprice of the pre-step state (clipped to
\* the cash bounds), not at the midprice the step leaves.
C18_PreStepMidprice ==
    StepReturned =>
        \A i \in Trajectories :
            Cash(ret.state[i]) =
                Max2(-env.max_cash,
                     Min2(env.max_cash,
                          Cash(ret.pre[i])
                            + CashFlowAt(i, Col(ret.pre[i], ASSET_PRICE_INDEX))))

\* a step whose trade is priced, unclipped, at a midprice that the step moved
C18_Witness ==
    /\ StepReturned
    /\ Col(ret.state[1], ASSET_PRICE_INDEX) # Col(ret.pre[1], ASSET_PRICE_INDEX)
    /\ Cash(ret.state[1]) # Cash(ret.pre[1])
    /\ Cash(ret.state[1]) =
            Cash(ret.pre[1]) + CashFlowAt(1, Col(ret.pre[1], ASSET_PRICE_INDEX))
    /\ Cash(ret.state[1]) #
            Cash(ret.pre[1]) + CashFlowAt(1, Col(ret.state[1], ASSET_PRICE_INDEX))

----------------------------------------------------------------------------
(* C19: the market update *)

\* the columns of row that are cached for process p
StateSlice(row, p) ==
    [k \in 1..(env.stochastic_process_indices[p][2] - env.stochastic_process_indices[p][1]) |->
        row[env.stochastic_process_indices[p][1] + k]]

\* the arrivals and the fills of trajectory i in the last step (None in the
\* execution regime)
ArrivalsOf(i) == IF ret.arrivals = None THEN None ELSE ret.arrivals[i]
FillsOf(i) == IF ret.fills = None THEN None ELSE ret.fills[i]

\* C19: each process's cached slice of the state equals the process's current
\* state; after a step that returns, every configured process is one update
\* away from its pre-step state, the update having received the arrivals,
\* fills and action of the agent update, and columns 0..2 of the state are the
\* ones the agent update produced from the pre-step state.
C19_MarketUpdate ==
    /\ \A p \in Registered : \A i \in Trajectories :
            StateSlice(state[i], p) = proc[p].cur[i]
    /\ StepReturned =>
        \A i \in Trajectories :
            /\ \A p \in Registered :
                 \E mv \in -1..1 :
                    proc[p].cur[i] =
                        ProcUpdate(cfg, p, StateSlice(ret.pre[i], p),
                                   ArrivalsOf(i), FillsOf(i), ret.action[i], mv)
            /\ \A k \in {CASH_INDEX, INVENTORY_INDEX, TIME_INDEX} :
                 Col(state[i], k) =
                    Col(update_agent_state(cfg, env, ret.pre[i],
                                           Col(ret.pre[i], ASSET_PRICE_INDEX),
                                           ArrivalsOf(i), FillsOf(i), ret.action[i]), k)

\* a step of an environment with three or more processes, all with a state,
\* in which the midprice and another process changed their state and the
\* agent traded
C19_Witness ==
    /\ StepReturned
    /\ Len(env.stochastic_processes) >= 3
    /\ \A p \in Registered : StateWidth(p) >= 1
    /\ StateSlice(state[1], "midprice_model") # StateSlice(ret.pre[1], "midprice_model")
    /\ \E p \in Registered \ {"midprice_model"} :
            StateSlice(state[1], p) # StateSlice(ret.pre[1], p)
    /\ Inventory(state[1]) # Inventory(ret.pre[1])

----------------------------------------------------------------------------
(* C20: one done value for the batch *)

\* the done value derived from the time of trajectory i of a state
DoneOf(st, i) == 2 * Time(st[i]) >= 2 * cfg.terminal_time - env.step_size

\* C20: all trajectories of the state hold the same elapsed time; the done
\* batch a step returns has num_trajectories entries, all equal to the done
\* value derived from trajectory 0 (and so to the one derived from any other
\* trajectory).
C20_DoneUniform ==
    /\ state # None => \A i \in 1..Len(state) : Time(state[i]) = Time(state[1])
    /\ StepReturned =>
        /\ Len(ret.dones) = env.num_trajectories
        /\ \A i \in 1..Len(ret.dones) :
            /\ ret.dones[i] = DoneOf(ret.state, 1)
            /\ ret.dones[i] = DoneOf(ret.state, i)

\* a step of a batch whose trajectories differ in inventory and that ends the
\* episode for all of them
C20_Witness ==
    /\ StepReturned
    /\ env.num_trajectories >= 2
    /\ Len(ret.dones) = env.num_trajectories
    /\ \A i \in 1..Len(ret.dones) : ret.dones[i]
    /\ Inventory(ret.state[1]) # Inventory(ret.state[2])

----------------------------------------------------------------------------
(* C21: the reads of the pre-step copy *)

\* the positions in the calls of the last step of the calls to callee
CallsTo(callee) == {k \in 1..Len(ret.calls) : ret.calls[k].callee = callee}

\* the position of the last call of the step that receives the pre-step copy
LastReadOfCopy ==
    CHOOSE k \in 1..Len(ret.calls) :
        /\ ret.calls[k].current_state = ret.pre
        /\ \A j \in (k + 1)..Len(ret.calls) : ret.calls[j].current_state # ret.pre

\* the reward function is consulted exactly once, with the pre-step copy, the
\* action, the post-step state and done
RewardConsultedOnce ==
    /\ Cardinality(CallsTo("reward_function.calculate")) = 1
    /\ \A k \in CallsTo("reward_function.calculate") :
        /\ ret.calls[k].current_state = ret.pre
        /\ ret.calls[k].action = ret.action
        /\ ret.calls[k].next_state = ret.state
        /\ ret.calls[k].done = ret.done

\* C21 as stated: in every step that returns the reward function is consulted
\* exactly once and that call is the last read of the pre-step copy, with or
\* without an info calculator.
C21_Original_RewardLastRead ==
    StepReturned =>
        /\ RewardConsultedOnce
        /\ ret.calls[LastReadOfCopy].callee = "reward_function.calculate"

\* C21: in every step that returns the reward function is consulted exactly
\* once, first, with the pre-step copy, the action, the post-step state and
\* done; without an info calculator this is the only read of the copy; with
\* one, the info calculator is consulted once after the reward, with the same
\* copy, the action and the rewards, and that is the last read of the copy.
C21_RewardThenInfo ==
    StepReturned =>
        /\ RewardConsultedOnce
        /\ CallsTo("reward_function.calculate") = {1}
        /\ cfg.info_calculator = None => Len(ret.calls) = 1
        /\ cfg.info_calculator # None =>
            /\ Len(ret.calls) = 2
            /\ LastReadOfCopy = 2
            /\ ret.calls[2].callee = "info_calculator.calculate"
            /\ ret.calls[2].current_state = ret.pre
            /\ ret.calls[2].action = ret.action
            /\ ret.calls[2].rewards =
                    calculate_reward(ret.pre, ret.action, ret.state, ret.done)

\* a step with an info calculator whose post-step state differs from the
\* pre-step copy in cash and price and that ends the episode
C21_Witness ==
    /\ StepReturned
    /\ cfg.info_calculator # None
    /\ Len(ret.calls) = 2
    /\ ret.done
    /\ Cash(ret.state[1]) # Cash(ret.pre[1])
    /\ Col(ret.state[1], ASSET_PRICE_INDEX) # Col(ret.pre[1], ASSET_PRICE_INDEX)

----------------------------------------------------------------------------
(* C22: cash and inventory account for the same trades *)

\* the changes of inventory and cash of trajectory i over the last step
InventoryChange(i) == Inventory(ret.state[i]) - Inventory(ret.pre[i])
CashChange(i) == Cash(ret.state[i]) - Cash(ret.pre[i])

\* the pre-step midprice of trajectory i
PreMid(i) == Col(ret.pre[i], ASSET_PRICE_INDEX)

\* the price offsets of the bid side and of the ask side in the last step
Offset(i, side) ==
    IF cfg.action_type = "touch" THEN cfg.half_spread[1]
    ELSE ret.action[i][side + 1]

\* some trades explain both changes of trajectory i: b units bought at the
\* bid price and a units sold at the ask price (market making), or the
\* inventory change itself traded at the midprice plus the impact (execution)
TradesExplain(i) ==
    IF cfg.action_type \in EXECUTION_ACTION_TYPES
    THEN CashChange(i) =
            - InventoryChange(i) * (PreMid(i) + get_impact(ret.action[i][1]))
    ELSE \E b \in 0..1 : \E a \in 0..1 :
            /\ InventoryChange(i) = b - a
            /\ CashChange(i) =
                    a * (PreMid(i) + Offset(i, ASK_INDEX))
                    - b * (PreMid(i) - Offset(i, BID_INDEX))

\* C22 as stated: in every step that returns, for every trajectory, the cash
\* change is minus the sum of signed quantity times execution price over
\* trades whose signed quantities sum to the inventory change.
C22_Original_TradesConsistent ==
    StepReturned => \A i \in Trajectories : TradesExplain(i)

----------------------------------------------------------------------------
(* C23: the batch after num_trajectories is assigned *)

\* num_trajectories has been assigned a new value and the state has been
\* rebuilt by reset since
Rebatched ==
    /\ Built
    /\ env.num_trajectories # cfg.num_trajectories
    /\ ret.op \in {"reset", "step"}
    /\ Len(state) = env.num_trajectories

\* the number of trajectories an infos value has an entry for (a single dict
\* is the info of one trajectory)
InfoEntries(infos) == IF infos.kind = "dict" THEN 1 ELSE infos.len

\* C23 as stated: once num_trajectories has been assigned a new value m and
\* reset has been called, the state has m rows, the sign multiplier has m rows,
\* the empty info placeholder has m entries, no step fails on the shapes of
\* the batch, and a step returns m rows, m dones and m infos.
C23_Original_BatchOfM ==
    Rebatched =>
        /\ Len(state) = env.num_trajectories
        /\ env.multiplier_shape[1] = env.num_trajectories
        /\ InfoEntries(env.empty_infos) = env.num_trajectories
        /\ ret.op = "step" =>
            /\ ret.err # "ValueError"
            /\ ret.err = "none" =>
                /\ Len(ret.state) = env.num_trajectories
                /\ Len(ret.dones) = env.num_trajectories
                /\ InfoEntries(ret.infos) = env.num_trajectories

====
